---------------------------- MODULE Spec2Model ----------------------------
(***************************************************************************)
(* influxdb-proxy: a reverse proxy in front of the InfluxDB HTTP API that  *)
(* forwards /query requests only when allowed(q, sources) admits them.     *)
(*                                                                         *)
(* Text is modelled after scanning: a string is a sequence of tokens, each *)
(* token a TLA+ string; the empty string is the empty sequence <<>>.       *)
(* Parsing, rendering (String()), case folding and splitting are operators *)
(* over such sequences, written after the code they stand for.             *)
(***************************************************************************)
EXTENDS Naturals, Sequences, FiniteSets

VARIABLES
    sources,    \* Proxy.sources: the allow-list given to NewProxy
    pc,         \* per handler goroutine: "idle", "serving" or "done"
    req,        \* per handler: the request being served
    resp,       \* per handler: what was written to the ResponseWriter
    forwarded,  \* per handler: whether p.proxy.ServeHTTP relayed the request
    calls,      \* per handler: the invocations of allowed made for the request
    arg,        \* a direct call of allowed: its arguments (as in TestAllowed)
    ret         \* a direct call of allowed: its result, or Pending

vars == <<sources, pc, req, resp, forwarded, calls, arg, ret>>

-----------------------------------------------------------------------------
(* Bounds of the model *)

MaxAllow   == 2   \* entries of an allow-list
MaxDepth   == 2   \* levels of subquery nesting around a source
MaxSources == 2   \* comma-separated sources of one FROM clause
MaxStmts   == 2   \* statements of one semicolon-separated batch

Handlers == {"h1", "h2"}   \* goroutines of the HTTP server serving requests

-----------------------------------------------------------------------------
(* Strings *)

Range(s) == {s[i] : i \in DOMAIN s}

\* strings.ToLower, token by token
ToLowerTok(t) ==
    CASE t = "SELECT"       -> "select"
      [] t = "FROM"         -> "from"
      [] t = "INTO"         -> "into"
      [] t = "DROP"         -> "drop"
      [] t = "DATABASE"     -> "database"
      [] t = "DELETE"       -> "delete"
      [] t = "SHOW"         -> "show"
      [] t = "MEASUREMENTS" -> "measurements"
      [] t = "M0"           -> "m0"
      [] t = "M1"           -> "m1"
      [] OTHER              -> t

ToLower(s) == [i \in DOMAIN s |-> ToLowerTok(s[i])]

\* strings.HasPrefix
HasPrefix(s, prefix) ==
    /\ Len(s) >= Len(prefix)
    /\ SubSeq(s, 1, Len(prefix)) = prefix

\* strings.Split(s, ","): the pieces between the commas, an empty piece being
\* the empty string "". A piece is at most one token here.
RECURSIVE Split(_)
Split(s) ==
    IF s = <<>> THEN <<"">>
    ELSE IF Head(s) = "," THEN <<"">> \o Split(Tail(s))
    ELSE IF Len(s) = 1 THEN <<Head(s)>>
    ELSE <<Head(s)>> \o Split(Tail(Tail(s)))

-----------------------------------------------------------------------------
(* The InfluxQL scanner and parser, as far as allowed depends on them *)

Keywords == {"select", "from", "into", "drop", "database", "delete", "show",
             "measurements"}

\* the scanner's token class of a word: keywords are found case-insensitively
Lookup(t) ==
    IF ToLowerTok(t) \in Keywords THEN ToLowerTok(t)
    ELSE CASE t = "("    -> "LPAREN"
           [] t = ")"    -> "RPAREN"
           [] t = ","    -> "COMMA"
           [] t = ";"    -> "SEMICOLON"
           [] t = "."    -> "DOT"
           [] t = "*"    -> "MUL"
           [] t = "/.*/" -> "REGEX"
           [] OTHER      -> "IDENT"

\* the class of the next token of s, "EOF" at the end of the text
Peek(s) == IF s = <<>> THEN "EOF" ELSE Lookup(Head(s))

Fail == [ok |-> FALSE, val |-> <<>>, rest |-> <<>>]
Ok(v, r) == [ok |-> TRUE, val |-> v, rest |-> r]

\* &Measurement{Database, RetentionPolicy, Name, Regex}
Measurement(db, rp, name, regex) ==
    [kind |-> "measurement", Database |-> db, RetentionPolicy |-> rp,
     Name |-> name, Regex |-> regex]

\* a parsed element put in front of the parsed rest of a list
Cons(x, more) ==
    IF more.ok THEN Ok(<<x>> \o more.val, more.rest) ELSE Fail

\* parseFields: one or more comma-separated fields, each a name or *
RECURSIVE parseFields(_)
parseFields(s) ==
    IF Peek(s) \notin {"IDENT", "MUL"} THEN Fail
    ELSE IF Peek(Tail(s)) = "COMMA"
         THEN Cons(Head(s), parseFields(Tail(Tail(s))))
         ELSE Ok(<<Head(s)>>, Tail(s))

\* the loop of parseSegmentedIdents: further dot-separated segments. After a
\* dot, a regular expression ends the loop and a second dot adds an empty
\* segment.
RECURSIVE segLoop(_, _)
segLoop(idents, s) ==
    IF Peek(s) # "DOT" THEN Ok(idents, s)
    ELSE IF Peek(Tail(s)) = "REGEX" THEN Ok(idents, Tail(s))
    ELSE IF Peek(Tail(s)) = "DOT" THEN segLoop(Append(idents, ""), Tail(s))
    ELSE IF Peek(Tail(s)) = "IDENT"
         THEN segLoop(Append(idents, Head(Tail(s))), Tail(Tail(s)))
    ELSE Fail

\* the end of parseSegmentedIdents: more than three segments are an error
atMostThree(r) == IF r.ok /\ Len(r.val) > 3 THEN Fail ELSE r

\* parseSegmentedIdents: ident { "." [ident] }
parseSegmentedIdents(s) ==
    IF Peek(s) # "IDENT" THEN Fail
    ELSE atMostThree(segLoop(<<Head(s)>>, Tail(s)))

\* parseSource, the segments parsed: three are db, rp and name; fewer may be
\* followed by a regular expression, else the last one is the name
measurementOf(r) ==
    IF ~r.ok THEN Fail
    ELSE IF Len(r.val) = 3
         THEN Ok(Measurement(r.val[1], r.val[2], r.val[3], FALSE), r.rest)
    ELSE IF Peek(r.rest) = "REGEX"
         THEN IF Len(r.val) = 1
              THEN Ok(Measurement("", r.val[1], "", TRUE), Tail(r.rest))
              ELSE Ok(Measurement(r.val[1], r.val[2], "", TRUE), Tail(r.rest))
    ELSE IF Len(r.val) = 1
         THEN Ok(Measurement("", "", r.val[1], FALSE), r.rest)
    ELSE Ok(Measurement("", r.val[1], r.val[2], FALSE), r.rest)

\* the measurement form of parseSource: a regular expression, or a name with
\* its qualifiers
parseMeasurement(s) ==
    IF Peek(s) = "REGEX" THEN Ok(Measurement("", "", "", TRUE), Tail(s))
    ELSE measurementOf(parseSegmentedIdents(s))

\* parseTarget, the segments after INTO parsed
targetOf(r) ==
    IF ~r.ok THEN Fail
    ELSE Ok(<<Measurement(IF Len(r.val) = 3 THEN r.val[1] ELSE "",
                          IF Len(r.val) = 3 THEN r.val[2]
                          ELSE IF Len(r.val) = 2 THEN r.val[1] ELSE "",
                          r.val[Len(r.val)], FALSE)>>, r.rest)

\* parseTarget: the optional INTO clause of a SELECT
parseTarget(s) ==
    IF Peek(s) # "into" THEN Ok(<<>>, s)
    ELSE targetOf(parseSegmentedIdents(Tail(s)))

RECURSIVE parseSelectStatement(_), parseSources(_, _), parseSource(_, _)

\* parseSelectStatement, the sources parsed: the statement
selectAfterSources(fields, target, src) ==
    IF ~src.ok THEN Fail
    ELSE Ok([kind |-> "select", Fields |-> fields, Target |-> target,
             Sources |-> src.val], src.rest)

\* parseSelectStatement, the INTO clause parsed: FROM and the sources
selectAfterTarget(fields, t) ==
    IF ~t.ok \/ Peek(t.rest) # "from" THEN Fail
    ELSE selectAfterSources(fields, t.val, parseSources(Tail(t.rest), TRUE))

\* parseSelectStatement, the fields parsed: the INTO clause
selectAfterFields(f) ==
    IF ~f.ok THEN Fail ELSE selectAfterTarget(f.val, parseTarget(f.rest))

\* parseSelectStatement, entered after the SELECT keyword
parseSelectStatement(s) == selectAfterFields(parseFields(s))

\* parseSources, the first source parsed: a comma and more sources, or the end
sourcesAfterFirst(first, subqueries) ==
    IF ~first.ok THEN Fail
    ELSE IF Peek(first.rest) = "COMMA"
         THEN Cons(first.val, parseSources(Tail(first.rest), subqueries))
    ELSE Ok(<<first.val>>, first.rest)

\* parseSources: one or more comma-separated sources
parseSources(s, subqueries) == sourcesAfterFirst(parseSource(s, subqueries), subqueries)

\* parseSource, the statement of a subquery parsed: the closing parenthesis
subQueryOf(sub) ==
    IF ~sub.ok \/ Peek(sub.rest) # "RPAREN" THEN Fail
    ELSE Ok([kind |-> "subquery", Statement |-> sub.val], Tail(sub.rest))

\* parseSource: a parenthesised subquery where they are allowed, else a
\* measurement
parseSource(s, subqueries) ==
    IF subqueries /\ Peek(s) = "LPAREN"
    THEN IF Peek(Tail(s)) # "select" THEN Fail
         ELSE subQueryOf(parseSelectStatement(Tail(Tail(s))))
    ELSE parseMeasurement(s)

\* parseDeleteStatement, the sources parsed
deleteOf(src) ==
    IF ~src.ok THEN Fail
    ELSE Ok([kind |-> "delete", Sources |-> src.val], src.rest)

\* Parser.ParseStatement: parses ONE statement from the front of the text and
\* leaves whatever follows it unread
ParseStatement(s) ==
    CASE Peek(s) = "select" -> parseSelectStatement(Tail(s))
      [] Peek(s) = "drop"   ->
            IF Peek(Tail(s)) = "database" /\ Peek(Tail(Tail(s))) = "IDENT"
            THEN Ok([kind |-> "drop database", Name |-> s[3]], SubSeq(s, 4, Len(s)))
            ELSE Fail
      [] Peek(s) = "delete" ->
            IF Peek(Tail(s)) # "from" THEN Fail
            ELSE deleteOf(parseSources(Tail(Tail(s)), FALSE))
      [] Peek(s) = "show"   ->
            IF Peek(Tail(s)) = "measurements"
            THEN Ok([kind |-> "show measurements"], Tail(Tail(s)))
            ELSE Fail
      [] OTHER -> Fail

-----------------------------------------------------------------------------
(* Rendering a parsed statement: Statement.String() *)

\* Measurement.String()
MeasurementString(m) ==
    (IF m.Database # "" THEN <<m.Database, ".">> ELSE <<>>)
    \o (IF m.RetentionPolicy # "" THEN <<m.RetentionPolicy>> ELSE <<>>)
    \o (IF m.Database # "" \/ m.RetentionPolicy # "" THEN <<".">> ELSE <<>>)
    \o (IF m.Name # "" THEN <<m.Name>>
        ELSE IF m.Regex THEN <<"/.*/">> ELSE <<>>)

\* Fields.String(): the fields joined by commas
RECURSIVE FieldsString(_)
FieldsString(f) ==
    IF Len(f) = 1 THEN <<f[1]>> ELSE <<f[1], ",">> \o FieldsString(Tail(f))

RECURSIVE StatementString(_), SourcesString(_)

\* SubQuery.String() or Measurement.String(): a subquery is in parentheses
SourceString(x) ==
    IF x.kind = "subquery"
    THEN <<"(">> \o StatementString(x.Statement) \o <<")">>
    ELSE MeasurementString(x)

\* Sources.String(): the sources joined by commas
SourcesString(a) ==
    IF Len(a) = 1 THEN SourceString(a[1])
    ELSE SourceString(a[1]) \o <<",">> \o SourcesString(Tail(a))

\* Statement.String(): the canonical text, keywords in upper case
StatementString(stmt) ==
    CASE stmt.kind = "select" ->
            <<"SELECT">> \o FieldsString(stmt.Fields)
            \o (IF stmt.Target # <<>>
                THEN <<"INTO">> \o MeasurementString(stmt.Target[1]) ELSE <<>>)
            \o <<"FROM">> \o SourcesString(stmt.Sources)
      [] stmt.kind = "drop database" -> <<"DROP", "DATABASE", stmt.Name>>
      [] stmt.kind = "delete" -> <<"DELETE", "FROM">> \o SourcesString(stmt.Sources)
      [] stmt.kind = "show measurements" -> <<"SHOW", "MEASUREMENTS">>

\* Measurements that does not descend into subqueries
MeasurementsTopLevel(a) == SelectSeq(a, LAMBDA x : x.kind = "measurement")

\* Sources.Measurements(): all measurements, those of subqueries included
RECURSIVE Measurements(_)
Measurements(a) ==
    IF a = <<>> THEN <<>>
    ELSE (IF a[1].kind = "subquery"
          THEN Measurements(a[1].Statement.Sources)
          ELSE <<a[1]>>)
         \o Measurements(Tail(a))

-----------------------------------------------------------------------------
(* proxy.go: the admission check *)

Nil                  == "nil"
ErrQueryEmpty        == "empty query not allowed"
ErrQueryNotAllowed   == "query not allowed"
ErrQueryNotSupported == "query is not supported"
ErrMethodNotAllowed  == "method not allowed"
ErrParse             == "error parsing InfluxQL statement"

\* lookup: whether name is an element of the slice
lookup(allowed, name) ==
    \E i \in DOMAIN allowed : allowed[i] = name

\* the test of line 163: the rendered statement, lowered, starts with "select"
isSelect(stmt) ==
    HasPrefix(ToLower(StatementString(stmt)), <<"select">>)

\* a measurement looked up by the first segment of its qualified name
lookupKeyFirstSegment(m) ==
    IF m.Database # "" THEN m.Database
    ELSE IF m.RetentionPolicy # "" THEN m.RetentionPolicy
    ELSE m.Name

\* the name of a measurement that allowed hands to lookup
lookupKey(m) == m.Name

\* the loop of allowed over the measurements ms, from the i-th on: it returns
\* at the first name that lookup does not find. looked: the names handed to
\* lookup so far, in order.
RECURSIVE checkSources(_, _, _, _)
checkSources(ms, list, i, looked) ==
    IF i > Len(ms)
    THEN [err |-> Nil, parsed |-> TRUE, looked |-> looked]
    ELSE IF ~lookup(list, lookupKey(ms[i]))
    THEN [err |-> ErrQueryNotAllowed, parsed |-> TRUE,
          looked |-> Append(looked, lookupKey(ms[i]))]
    ELSE checkSources(ms, list, i + 1, Append(looked, lookupKey(ms[i])))

\* allowed with the SELECT test returning nil in the place of the error
allowedParsedNonSelectNil(p, list) ==
    IF ~p.ok
    THEN [err |-> ErrParse, parsed |-> TRUE, looked |-> <<>>]
    ELSE IF ~isSelect(p.val)
    THEN [err |-> Nil, parsed |-> TRUE, looked |-> <<>>]
    ELSE checkSources(Measurements(p.val.Sources), list, 1, <<>>)

\* allowed, the statement parsed: the SELECT test and the allow-list check
allowedParsed(p, list) ==
    IF ~p.ok
    THEN [err |-> ErrParse, parsed |-> TRUE, looked |-> <<>>]
    ELSE IF ~isSelect(p.val)
    THEN [err |-> ErrQueryNotAllowed, parsed |-> TRUE, looked |-> <<>>]
    ELSE checkSources(Measurements(p.val.Sources), list, 1, <<>>)

\* allowed without the test for the empty query
allowedRunNoEmptyTest(q, list) == allowedParsed(ParseStatement(q), list)

\* allowed(q, allowed) with what it did on the way: err is its return value,
\* parsed whether the parser was run, looked the names handed to lookup
allowedRun(q, list) ==
    IF q = <<>>
    THEN [err |-> ErrQueryEmpty, parsed |-> FALSE, looked |-> <<>>]
    ELSE allowedParsed(ParseStatement(q), list)

\* allowed: nil, or the error
allowed(q, list) == allowedRun(q, list).err


-----------------------------------------------------------------------------
(* The inputs: allow-lists, flag values and query texts *)

\* sequences over S of length lo..hi
SeqsOf(S, lo, hi) == UNION {[1..n -> S] : n \in lo..hi}

\* the strings an allow-list is made of here; "" is the empty string
AllowNames == {"m0", "M0", "m1", ""}

\* the allow-lists handed to NewProxy or to allowed, the nil list included
AllowLists == SeqsOf(AllowNames, 0, MaxAllow)

\* values of the -measurements flag: names separated by commas
FlagValues ==
    {f \in SeqsOf((AllowNames \ {""}) \cup {","}, 0, 2 * MaxAllow - 1) :
        /\ \A i \in 1..(Len(f) - 1) : f[i] = "," \/ f[i + 1] = ","
        /\ Len(Split(f)) <= MaxAllow}

\* main: the lists it hands to NewProxy, an empty flag being fatal
FlagLists == {Split(f) : f \in FlagValues \ {<<>>}}

\* "select <fields> FROM <sources>"
SelectText(fields, src) == <<"select">> \o fields \o <<"FROM">> \o src

\* a source list put in a subquery: "(SELECT * FROM <sources>)"
SubText(src) == <<"(", "SELECT", "*", "FROM">> \o src \o <<")">>

\* texts joined by a separator token
RECURSIVE JoinText(_, _)
JoinText(texts, sep) ==
    IF Len(texts) = 1 THEN texts[1]
    ELSE texts[1] \o <<sep>> \o JoinText(Tail(texts), sep)

\* source lists nested up to d levels: at depth 0 a list of 1..MaxSources
\* leaves, a name or a regular expression each; at depth d a subquery over a
\* list of depth d-1, alone or after the literal source m1
LeafTexts == {"m0", "m1", "/.*/"}

RECURSIVE NestedSources(_)
NestedSources(d) ==
    IF d = 0
    THEN {JoinText([i \in DOMAIN l |-> <<l[i]>>], ",") :
             l \in SeqsOf(LeafTexts, 1, MaxSources)}
    ELSE UNION {{SubText(s), <<"m1", ",">> \o SubText(s)} :
                   s \in NestedSources(d - 1)}

NestedQueries ==
    {SelectText(<<"a">>, s) : s \in UNION {NestedSources(d) : d \in 0..MaxDepth}}

\* one SELECT over one literal source, bare or qualified by a database and a
\* retention policy: n, db.rp.n and db..n
SourceNames == {"m0", "M0", "m1", "M1"}
DbNames     == {"db", "m0"}
RpNames     == {"rp", "m0", ""}

QualifiedSource(db, rp, n) ==
    IF rp = "" THEN <<db, ".", ".", n>> ELSE <<db, ".", rp, ".", n>>

BareQueries == {SelectText(<<"a">>, <<n>>) : n \in SourceNames}

QualifiedQueries ==
    {SelectText(<<"a">>, QualifiedSource(db, rp, n)) :
        db \in DbNames, rp \in RpNames, n \in SourceNames}

\* texts of one statement that is not a SELECT, in several spellings
NonSelectTexts ==
    { <<"drop", "database", "db">>, <<"DROP", "DATABASE", "db">>,
      <<"DELETE", "from", "m0">>, <<"delete", "FROM", "m0">>,
      <<"show", "measurements">>, <<"SHOW", "MEASUREMENTS">> }

\* batches of 1..MaxStmts statements separated by ";", with or without a
\* closing ";"
BatchStatements ==
    { <<"select", "a", "FROM", "m0">>, <<"SELECT", "b", "FROM", "m1">>,
      <<"drop", "database", "db">> }

BatchQueries ==
    UNION {{JoinText(b, ";"), JoinText(b, ";") \o <<";">>} :
              b \in SeqsOf(BatchStatements, 1, MaxStmts)}

\* a SELECT with a write target
IntoQuery == <<"select", "a", "INTO", "m1", "FROM", "m0">>

\* texts the parser rejects
BrokenQueries == { <<"select">>, <<"select", "a", "FROM">>, <<"a">>,
                   <<"select", "a", "FROM", "(", "m0", ")">> }

\* the texts allowed is called with directly
Queries ==
    {<<>>} \cup NestedQueries \cup BareQueries \cup QualifiedQueries
    \cup NonSelectTexts \cup BatchQueries \cup {IntoQuery} \cup BrokenQueries

\* the texts sent in the q parameter of a request
HttpQueries ==
    { <<>>, <<"select">>, IntoQuery,
      SelectText(<<"*">>, <<"m0">>), SelectText(<<"a">>, <<"M0">>),
      SelectText(<<"a">>, <<"/.*/">>),
      <<"drop", "database", "db">>, <<"DELETE", "from", "m0">>,
      <<"SHOW", "MEASUREMENTS">> }


-----------------------------------------------------------------------------
(* proxy.go: the HTTP handler *)

StatusOK               == 200
StatusNotFound         == 404
StatusMethodNotAllowed == 405
StatusNotAcceptable    == 406
StatusNotImplemented   == 501

Paths   == {"/ping", "/write", "/query", "/debug/version", "/some/more"}

\* the requests sent to the proxy: GET and POST to /query with a q parameter,
\* to every path without one, and to /write with a query that /query would
\* take; PUT, for the methods the proxy refuses, to /query and /write
Requests ==
    {[method |-> m, path |-> "/query", hasq |-> TRUE, q |-> q] :
        m \in {"GET", "POST"}, q \in HttpQueries}
    \cup {[method |-> m, path |-> p, hasq |-> FALSE, q |-> <<>>] :
             m \in {"GET", "POST"}, p \in Paths}
    \cup {[method |-> m, path |-> "/write", hasq |-> TRUE,
           q |-> SelectText(<<"*">>, <<"m0">>)] : m \in {"GET", "POST"}}
    \cup {[method |-> "PUT", path |-> p, hasq |-> FALSE, q |-> <<>>] :
             p \in {"/query", "/write"}}

NoReq  == [method |-> "", path |-> "", hasq |-> FALSE, q |-> <<>>]
NoResp == [status |-> 0, ctype |-> "", error |-> "", by |-> ""]

\* r.URL.Query().Get("q"): the empty string when there is no q parameter
URLQueryGet(r) == IF r.hasq THEN r.q ELSE <<>>

\* reportError: the error in a JSON object, with the given status
reportError(err, code) ==
    [status |-> code, ctype |-> "application/json; charset=UTF-8",
     error |-> err, by |-> "reportError"]

\* p.proxy.ServeHTTP: the backend's answer relayed; the backend answers 200
backendResponse ==
    [status |-> StatusOK, ctype |-> "", error |-> "", by |-> "backend"]

\* a handler that consumes the head of the shared allow-list as it serves
ServedConsumingSources(h, response, fwd, invocations) ==
    /\ pc' = [pc EXCEPT ![h] = "done"]
    /\ resp' = [resp EXCEPT ![h] = response]
    /\ forwarded' = [forwarded EXCEPT ![h] = fwd]
    /\ calls' = [calls EXCEPT ![h] = invocations]
    /\ sources' = IF sources = <<>> THEN sources ELSE Tail(sources)
    /\ UNCHANGED <<req, arg, ret>>

\* what ServeHTTP leaves behind for handler h
Served(h, response, fwd, invocations) ==
    /\ pc' = [pc EXCEPT ![h] = "done"]
    /\ resp' = [resp EXCEPT ![h] = response]
    /\ forwarded' = [forwarded EXCEPT ![h] = fwd]
    /\ calls' = [calls EXCEPT ![h] = invocations]
    /\ UNCHANGED <<sources, req, arg, ret>>

\* the record of one call allowed(q, list) made while serving a request
Invocation(q, list) == [q |-> q, list |-> list, run |-> allowedRun(q, list)]

\* the server hands a request to a handler goroutine
Accept(h, r) ==
    /\ pc[h] = "idle"
    /\ pc' = [pc EXCEPT ![h] = "serving"]
    /\ req' = [req EXCEPT ![h] = r]
    /\ UNCHANGED <<sources, resp, forwarded, calls, arg, ret>>

\* ServeHTTP, a method other than GET and POST
MethodNotAllowed(h) ==
    /\ pc[h] = "serving"
    /\ req[h].method # "GET" /\ req[h].method # "POST"
    /\ Served(h, reportError(ErrMethodNotAllowed, StatusMethodNotAllowed),
              FALSE, <<>>)

\* ServeHTTP, the default case of the switch on the path
NotFound(h) ==
    /\ pc[h] = "serving"
    /\ req[h].method \in {"GET", "POST"}
    /\ req[h].path \notin {"/ping", "/write", "/query", "/debug/version"}
    /\ Served(h, [status |-> StatusNotFound,
                  ctype |-> "text/plain; charset=utf-8",
                  error |-> "", by |-> "http.Error"], FALSE, <<>>)

\* ServeHTTP, case "/ping"
Ping(h) ==
    /\ pc[h] = "serving"
    /\ req[h].method \in {"GET", "POST"}
    /\ req[h].path = "/ping"
    /\ Served(h, backendResponse, TRUE, <<>>)

\* case "/write" falling into case "/query"
WriteAsQuery(h) ==
    /\ pc[h] = "serving"
    /\ req[h].method \in {"GET", "POST"}
    /\ req[h].path = "/write"
    /\ IF allowed(URLQueryGet(req[h]), sources) # Nil
       THEN Served(h, reportError(allowed(URLQueryGet(req[h]), sources),
                                  StatusNotAcceptable),
                   FALSE, <<Invocation(URLQueryGet(req[h]), sources)>>)
       ELSE Served(h, backendResponse, TRUE,
                   <<Invocation(URLQueryGet(req[h]), sources)>>)

\* ServeHTTP, case "/write"
Write(h) ==
    /\ pc[h] = "serving"
    /\ req[h].method \in {"GET", "POST"}
    /\ req[h].path = "/write"
    /\ Served(h, reportError(ErrQueryNotSupported, StatusNotImplemented),
              FALSE, <<>>)

\* case "/query" without the return after reportError
QueryDeniedNoReturn(h) ==
    /\ pc[h] = "serving"
    /\ req[h].method \in {"GET", "POST"}
    /\ req[h].path = "/query"
    /\ allowed(URLQueryGet(req[h]), sources) # Nil
    /\ Served(h, reportError(allowed(URLQueryGet(req[h]), sources),
                             StatusNotAcceptable),
              TRUE, <<Invocation(URLQueryGet(req[h]), sources)>>)

\* ServeHTTP, case "/query", allowed returned an error
QueryDenied(h) ==
    /\ pc[h] = "serving"
    /\ req[h].method \in {"GET", "POST"}
    /\ req[h].path = "/query"
    /\ allowed(URLQueryGet(req[h]), sources) # Nil
    /\ Served(h, reportError(allowed(URLQueryGet(req[h]), sources),
                             StatusNotAcceptable),
              FALSE, <<Invocation(URLQueryGet(req[h]), sources)>>)

\* ServeHTTP, case "/query", allowed returned nil
QueryForward(h) ==
    /\ pc[h] = "serving"
    /\ req[h].method \in {"GET", "POST"}
    /\ req[h].path = "/query"
    /\ allowed(URLQueryGet(req[h]), sources) = Nil
    /\ Served(h, backendResponse, TRUE,
              <<Invocation(URLQueryGet(req[h]), sources)>>)

\* ServeHTTP, case "/debug/version"
DebugVersion(h) ==
    /\ pc[h] = "serving"
    /\ req[h].method \in {"GET", "POST"}
    /\ req[h].path = "/debug/version"
    /\ Served(h, [status |-> StatusOK, ctype |-> "text/plain", error |-> "",
                  by |-> "version"], FALSE, <<>>)

\* the handler has returned and the goroutine takes the next request
Finish(h) ==
    /\ pc[h] = "done"
    /\ pc' = [pc EXCEPT ![h] = "idle"]
    /\ req' = [req EXCEPT ![h] = NoReq]
    /\ resp' = [resp EXCEPT ![h] = NoResp]
    /\ forwarded' = [forwarded EXCEPT ![h] = FALSE]
    /\ calls' = [calls EXCEPT ![h] = <<>>]
    /\ UNCHANGED <<sources, arg, ret>>

NoArg   == [q |-> <<>>, allowed |-> <<>>]
Pending == [err |-> "pending", parsed |-> FALSE, looked |-> <<>>]

\* NewProxy(addr, sources): the proxy before its first request
Init ==
    /\ sources \in AllowLists
    /\ pc = [h \in Handlers |-> "idle"]
    /\ req = [h \in Handlers |-> NoReq]
    /\ resp = [h \in Handlers |-> NoResp]
    /\ forwarded = [h \in Handlers |-> FALSE]
    /\ calls = [h \in Handlers |-> <<>>]
    /\ arg = NoArg
    /\ ret = Pending

Next ==
    \E h \in Handlers :
        \/ \E r \in Requests : Accept(h, r)
        \/ MethodNotAllowed(h)
        \/ NotFound(h)
        \/ Ping(h)
        \/ Write(h)
        \/ QueryDenied(h)
        \/ QueryForward(h)
        \/ DebugVersion(h)
        \/ Finish(h)

Spec == Init /\ [][Next]_vars

-----------------------------------------------------------------------------
(* allowed called directly, as TestAllowed does *)

AllowedInit ==
    /\ arg \in [q : Queries, allowed : AllowLists]
    /\ ret = Pending
    /\ sources = <<>>
    /\ pc = [h \in Handlers |-> "idle"]
    /\ req = [h \in Handlers |-> NoReq]
    /\ resp = [h \in Handlers |-> NoResp]
    /\ forwarded = [h \in Handlers |-> FALSE]
    /\ calls = [h \in Handlers |-> <<>>]

CallAllowed ==
    /\ ret = Pending
    /\ ret' = allowedRun(arg.q, arg.allowed)
    /\ UNCHANGED <<sources, pc, req, resp, forwarded, calls, arg>>

AllowedNext == CallAllowed

AllowedSpec == AllowedInit /\ [][AllowedNext]_vars


-----------------------------------------------------------------------------
(* What the properties say about a query, read off its text *)

\* the position of the first ";" of q, Len(q) + 1 if there is none
FirstSemicolon(q) ==
    IF \E i \in DOMAIN q : q[i] = ";"
    THEN CHOOSE i \in DOMAIN q : q[i] = ";" /\ \A j \in 1..(i - 1) : q[j] # ";"
    ELSE Len(q) + 1

\* the statements of a batch: the texts between the semicolons
RECURSIVE StatementTexts(_)
StatementTexts(q) ==
    IF q = <<>> THEN <<>>
    ELSE <<SubSeq(q, 1, FirstSemicolon(q) - 1)>>
         \o StatementTexts(SubSeq(q, FirstSemicolon(q) + 1, Len(q)))

\* a statement text that begins with the word SELECT, in any case
IsSelectText(t) == t # <<>> /\ ToLowerTok(t[1]) = "select"

\* the literal source names a text refers to, at any nesting level
NamesIn(t) == Range(t) \cap SourceNames

\* a text with a regular expression in the place of a source
HasRegex(t) == "/.*/" \in Range(t)

\* a text with a write target
HasInto(t) == \E i \in DOMAIN t : ToLowerTok(t[i]) = "into"

\* the request of handler h was served and was a GET or POST to path
ServedAt(h, path) ==
    /\ pc[h] = "done"
    /\ req[h].method \in {"GET", "POST"}
    /\ req[h].path = path

-----------------------------------------------------------------------------
(* Properties *)

\* C1: a batch of semicolon-separated statements is admitted if and only if
\* every statement of it is a SELECT and every source of every statement is
\* on the allow-list.
C1_BatchConjunction ==
    (ret # Pending /\ arg.q \in BatchQueries) =>
        (ret.err = Nil <=>
            \A i \in DOMAIN StatementTexts(arg.q) :
                /\ IsSelectText(StatementTexts(arg.q)[i])
                /\ NamesIn(StatementTexts(arg.q)[i]) \subseteq Range(arg.allowed))

\* C2: a literal source name passes if and only if some entry of the
\* allow-list equals it after case folding.
C2_CaseInsensitive ==
    (ret # Pending /\ arg.q \in BareQueries) =>
        (ret.err = Nil <=>
            \E i \in DOMAIN arg.allowed :
                ToLowerTok(arg.allowed[i]) = ToLowerTok(arg.q[Len(arg.q)]))

\* C3: a SELECT with a regular expression as a source, at any nesting level,
\* is denied with ErrQueryNotAllowed for every allow-list that main can make
\* from the -measurements flag.
C3_RegexDenied ==
    (ret # Pending /\ arg.q \in NestedQueries /\ HasRegex(arg.q)
        /\ arg.allowed \in FlagLists) =>
        ret.err = ErrQueryNotAllowed

\* C4: a request reaches the backend only if its method is GET or POST and
\* its path is /ping, or /query with allowed(q, sources) = nil; a /query
\* request that allowed refuses is answered 406 with the error in JSON and
\* not forwarded; no request is answered by reportError and forwarded.
C4_ForwardOnlyAdmitted ==
    \A h \in Handlers :
        /\ forwarded[h] =>
            /\ req[h].method \in {"GET", "POST"}
            /\ \/ req[h].path = "/ping"
               \/ /\ req[h].path = "/query"
                  /\ allowed(URLQueryGet(req[h]), sources) = Nil
        /\ (ServedAt(h, "/query") /\ allowed(URLQueryGet(req[h]), sources) # Nil) =>
            /\ resp[h] = reportError(allowed(URLQueryGet(req[h]), sources),
                                     StatusNotAcceptable)
            /\ ~forwarded[h]
        /\ ~(resp[h].by = "reportError" /\ forwarded[h])

\* one handler has forwarded a /query request while another has refused one
C4_Witness ==
    \E h, g \in Handlers :
        /\ ServedAt(h, "/query") /\ forwarded[h] /\ resp[h].status = StatusOK
        /\ ServedAt(g, "/query") /\ ~forwarded[g]
        /\ resp[g].status = StatusNotAcceptable

\* C5: a SELECT over subqueries nested to any depth, with literal sources, is
\* admitted if every leaf measurement is on the allow-list and refused with
\* ErrQueryNotAllowed if some leaf is not.
C5_NestedLeaves ==
    (ret # Pending /\ arg.q \in NestedQueries /\ ~HasRegex(arg.q)) =>
        IF NamesIn(arg.q) \subseteq Range(arg.allowed)
        THEN ret.err = Nil
        ELSE ret.err = ErrQueryNotAllowed

\* the only leaf missing from the list lies MaxDepth levels deep, beside
\* sources that are on the list
C5_Witness ==
    /\ ret # Pending
    /\ arg.q \in {SelectText(<<"a">>, s) : s \in NestedSources(MaxDepth)}
    /\ arg.q[4] = "m1"
    /\ "m0" \in NamesIn(arg.q)
    /\ arg.allowed = <<"m1">>
    /\ ret.err = ErrQueryNotAllowed

\* C6: every /query request that is forwarded is a pure read: each statement
\* of its q is a SELECT, and none carries an INTO clause.
C6_OnlyPureReads ==
    \A h \in Handlers :
        (forwarded[h] /\ req[h].path = "/query") =>
            /\ \A i \in DOMAIN StatementTexts(URLQueryGet(req[h])) :
                   IsSelectText(StatementTexts(URLQueryGet(req[h]))[i])
            /\ ~HasInto(URLQueryGet(req[h]))

\* C7: a /query request whose q is a statement other than SELECT, in any
\* spelling of the keywords, is answered 406 with ErrQueryNotAllowed for
\* every allow-list; no source is looked up and nothing is forwarded.
C7_NonSelectDenied ==
    \A h \in Handlers :
        (ServedAt(h, "/query") /\ URLQueryGet(req[h]) \in NonSelectTexts) =>
            /\ resp[h] = reportError(ErrQueryNotAllowed, StatusNotAcceptable)
            /\ ~forwarded[h]
            /\ Len(calls[h]) = 1
            /\ calls[h][1].run.err = ErrQueryNotAllowed
            /\ calls[h][1].run.looked = <<>>

\* a DELETE whose source is on the allow-list was refused
C7_Witness ==
    \E h \in Handlers :
        /\ ServedAt(h, "/query")
        /\ URLQueryGet(req[h]) = <<"DELETE", "from", "m0">>
        /\ lookup(sources, "m0")
        /\ resp[h].status = StatusNotAcceptable

\* C8: a /query request with no q parameter or an empty one is answered 406
\* with ErrQueryEmpty for every allow-list, the nil list included; nothing
\* is parsed, looked up or forwarded.
C8_EmptyQuery ==
    \A h \in Handlers :
        (ServedAt(h, "/query") /\ URLQueryGet(req[h]) = <<>>) =>
            /\ resp[h] = reportError(ErrQueryEmpty, StatusNotAcceptable)
            /\ ~forwarded[h]
            /\ Len(calls[h]) = 1
            /\ calls[h][1].run =
                  [err |-> ErrQueryEmpty, parsed |-> FALSE, looked |-> <<>>]

\* with the nil allow-list, one request without q and one with an empty q
\* were both refused
C8_Witness ==
    \E h, g \in Handlers :
        /\ sources = <<>>
        /\ ServedAt(h, "/query") /\ ~req[h].hasq
        /\ ServedAt(g, "/query") /\ req[g].hasq /\ req[g].q = <<>>
        /\ resp[h].error = ErrQueryEmpty
        /\ resp[g].error = ErrQueryEmpty

\* C9: for a source db.rp.m or db..m the result of allowed is the result for
\* the bare source m with the same allow-list: admitted if and only if m is
\* on the list, whatever db and rp are.
C9_QualifiersIgnored ==
    (ret # Pending /\ arg.q \in QualifiedQueries) =>
        /\ ret.err = allowed(SelectText(<<"a">>, <<arg.q[Len(arg.q)]>>), arg.allowed)
        /\ ret.err = Nil <=> arg.q[Len(arg.q)] \in Range(arg.allowed)

\* the database and the retention policy are named like an entry of the
\* allow-list, the measurement is not on it, and the query was refused
C9_Witness ==
    /\ ret # Pending
    /\ arg.q = SelectText(<<"a">>, QualifiedSource("m0", "m0", "m1"))
    /\ arg.allowed = <<"m0">>
    /\ ret.err = ErrQueryNotAllowed

\* C10: a GET or POST to /write is answered 501 with ErrQueryNotSupported,
\* whatever q it carries; allowed is not called and nothing is forwarded.
C10_WriteRejected ==
    \A h \in Handlers :
        ServedAt(h, "/write") =>
            /\ resp[h] = reportError(ErrQueryNotSupported, StatusNotImplemented)
            /\ calls[h] = <<>>
            /\ ~forwarded[h]

\* a /write request was refused whose q would be admitted on /query
C10_Witness ==
    \E h \in Handlers :
        /\ ServedAt(h, "/write")
        /\ req[h].hasq
        /\ allowed(URLQueryGet(req[h]), sources) = Nil
        /\ resp[h].status = StatusNotImplemented


\* the answer to a /query request as its own q and the allow-list decide it
QueryOutcome(q, list) ==
    IF allowed(q, list) = Nil
    THEN [forwarded |-> TRUE, resp |-> backendResponse]
    ELSE [forwarded |-> FALSE,
          resp |-> reportError(allowed(q, list), StatusNotAcceptable)]

\* every served /query request has the answer that its q and the allow-list
\* decide, whatever the other handler is doing or has done
OutcomeByOwnQuery ==
    \A h \in Handlers :
        ServedAt(h, "/query") =>
            /\ [forwarded |-> forwarded[h], resp |-> resp[h]]
                   = QueryOutcome(URLQueryGet(req[h]), sources)
            /\ calls[h] = <<Invocation(URLQueryGet(req[h]), sources)>>

\* C11: under every interleaving of the handlers no step changes the
\* allow-list given to NewProxy, and the answer to a /query request is the
\* one its own q and that list decide, whatever else was or is being served.
C11_SourcesReadOnly ==
    /\ []OutcomeByOwnQuery
    /\ [][sources' = sources]_vars

\* both handlers have served the same q at the same time, sent with
\* different methods, and both requests were admitted
C11_Witness ==
    \E h, g \in Handlers :
        /\ h # g
        /\ ServedAt(h, "/query") /\ ServedAt(g, "/query")
        /\ req[h].method # req[g].method
        /\ URLQueryGet(req[h]) = URLQueryGet(req[g])
        /\ forwarded[h] /\ forwarded[g]
        /\ sources # <<>>

=============================================================================
